---------------------------- MODULE Spec2Model ----------------------------
(***************************************************************************)
(* Model of the signed-log axis scale (SignLogScale).                      *)
(*                                                                         *)
(* src/src/scale/SignLog.ts is the current revision: the raw extent is     *)
(* kept by an untransformed "original" scale and the scale's own _extent   *)
(* holds the transformed (and possibly re-projected) bounds.               *)
(* src/unnamed/part_000 is the earlier revision, which rescales by a       *)
(* _power factor and recovers the raw extent by inverse-transforming.      *)
(*                                                                         *)
(* Numbers.  A JavaScript number x is modelled by the integer x * Unit     *)
(* (fixed point, four decimals).  Math.log and Math.pow are computed from  *)
(* a table of decimal logarithms with linear interpolation between its     *)
(* entries, so both are total, monotone, and exact on the values           *)
(* 1, 2, 5 * 10^k from which the calls of the model draw their arguments.  *)
(* Infinity is the sentinel Inf.                                           *)
(***************************************************************************)
EXTENDS Integers, Sequences, FiniteSets, TLC

VARIABLES
    base,            \* SignLogScale.base
    originalExtent,  \* this._originalScale._extent (raw domain)
    extent,          \* this._extent (transformed domain)
    interval,        \* this._interval
    niceExtent,      \* this._niceExtent
    power,           \* this._power (earlier revision only)
    phase,           \* where the owning axis is in its layout pass
    q                \* the last call: [op, arg, res]

vars == <<base, originalExtent, extent, interval, niceExtent, power, phase, q>>

-----------------------------------------------------------------------------
(* Bounds of the model *)

\* raw magnitudes are m * 10^k with -MaxExp <= k <= MaxExp
MaxExp == 2

-----------------------------------------------------------------------------
(* Numbers *)

Unit == 10000

Inf == 2^30

mathAbs(x) == IF x < 0 THEN -x ELSE x

\* Math.sign, as a plain integer in {-1, 0, 1}
mathSign(x) == IF x > 0 THEN 1 ELSE IF x < 0 THEN -1 ELSE 0

mathMin(x, y) == IF x <= y THEN x ELSE y

mathMax(x, y) == IF x >= y THEN x ELSE y

\* floor(a * b / c) for a, b >= 0 and c > 0, without forming a * b
RECURSIVE MulDivMod(_, _, _)
MulDivMod(a, b, c) ==
    IF b = 0 THEN <<0, 0>>
    ELSE LET h  == MulDivMod(a, b \div 2, c)
             r2 == 2 * h[2] + (IF b % 2 = 1 THEN a % c ELSE 0)
             q2 == 2 * h[1] + (IF b % 2 = 1 THEN a \div c ELSE 0)
         IN  <<q2 + r2 \div c, r2 % c>>

\* floor(a * b / c), the product formed directly when it fits the integers
MulDiv(a, b, c) ==
    IF a < 40000 /\ b < 40000 THEN (a * b) \div c ELSE MulDivMod(a, b, c)[1]

\* x * y of two fixed-point numbers, rounded toward zero
Mul(x, y) == mathSign(x) * mathSign(y) * MulDiv(mathAbs(x), mathAbs(y), Unit)

\* x / y of two fixed-point numbers (y # 0), rounded toward zero
Div(x, y) == mathSign(x) * mathSign(y) * MulDiv(mathAbs(x), Unit, mathAbs(y))

\* the sign of the product x * y, which is all the code reads of it
ProdSign(x, y) == mathSign(x) * mathSign(y)

mathFloor(x) == (x \div Unit) * Unit

mathCeil(x) == -((-x) \div Unit) * Unit

\* n as a fixed-point number
Num(n) == n * Unit

IPow10(n) == 10^n

\* the table: mantissas 1, 2, 5, 10 and their decimal logarithms
Mant == <<10000, 20000, 50000, 100000>>
MLog == <<0, 3010, 6990, 10000>>

\* mantissa in [Unit, 10 * Unit) and decimal exponent of v > 0
RECURSIVE Normalise(_, _)
Normalise(v, k) ==
    IF v >= 10 * Unit THEN Normalise(v \div 10, k + 1)
    ELSE IF v < Unit THEN Normalise(v * 10, k - 1)
    ELSE <<v, k>>

MantLog(m) ==
    LET i == CHOOSE j \in 1..3 : Mant[j] <= m /\ m < Mant[j + 1]
    IN  MLog[i] + ((m - Mant[i]) * (MLog[i + 1] - MLog[i])) \div (Mant[i + 1] - Mant[i])

\* Math.log(v) / Math.LN10 for v > 0
Log10(v) ==
    LET n == Normalise(v, 0)
    IN  n[2] * Unit + MantLog(n[1])

LogMant(f) ==
    LET i == CHOOSE j \in 1..3 : MLog[j] <= f /\ f < MLog[j + 1]
    IN  Mant[i] + ((f - MLog[i]) * (Mant[i + 1] - Mant[i])) \div (MLog[i + 1] - MLog[i])

\* Math.pow(10, y)
Pow10(y) ==
    LET k == y \div Unit
        m == LogMant(y % Unit)
    IN  IF k >= 5 THEN Inf
        ELSE IF k >= 0 THEN m * IPow10(k)
        ELSE IF k < -8 THEN 0
        ELSE m \div IPow10(-k)

\* Math.pow(b, y) for a base b (a plain integer)
mathPow(b, y) == Pow10(Mul(y, Log10(Num(b))))

\* SignLog.ts mathLog: 0 at 0, else log of |value| to the base
mathLog(b, value) ==
    IF value = 0 THEN value
    ELSE Div(Log10(mathAbs(value)), Log10(Num(b)))

qwtLog(b, value) ==
    IF value = 0 THEN value
    ELSE IF value < 0 THEN -mathLog(b, -value)
    ELSE mathLog(b, value)

-----------------------------------------------------------------------------
(* Collaborators of the scale: Scale, IntervalScale, scale/helper and      *)
(* util/number, described in sections 4.2, 4.5 and 6 of the specification. *)

\* Scale.unionExtent: widen ext to cover other
ScaleUnionExtent(ext, other) ==
    << IF other[1] < ext[1] THEN other[1] ELSE ext[1],
       IF other[2] > ext[2] THEN other[2] ELSE ext[2] >>

\* helper.contain: inclusive range test
helperContain(val, ext) == val >= ext[1] /\ val <= ext[2]

\* helper.normalize: the affine map of ext onto [0, 1], as the exact ratio
\* <<numerator, denominator>> with a positive denominator
helperNormalize(val, ext) ==
    IF ext[2] = ext[1] THEN <<1, 2>>
    ELSE IF ext[2] > ext[1] THEN <<val - ext[1], ext[2] - ext[1]>>
    ELSE <<ext[1] - val, ext[1] - ext[2]>>

\* helper.scale: t * (ext[2] - ext[1]) + ext[1] for the ratio t
helperScale(t, ext) ==
    LET span == ext[2] - ext[1]
        sg   == mathSign(t[1]) * mathSign(span)
    IN  sg * MulDiv(mathAbs(t[1]), mathAbs(span), t[2]) + ext[1]

\* numberUtil.round(x, precision): x to `precision` decimals, half away
\* from zero; the default precision is 10
round(x, precision) ==
    IF precision >= 4 THEN x
    ELSE LET m == IPow10(4 - precision)
         IN  mathSign(x) * (((mathAbs(x) + m \div 2) \div m) * m)

\* numberUtil.quantity: 10 ^ floor(log10(val)) for val > 0
quantity(val) == Pow10(mathFloor(Log10(val)))

-----------------------------------------------------------------------------
(* The transform, SignLog.ts *)

signedLogTransform(b, val) ==
    IF val > -Num(10) /\ val < Num(10)
    THEN Div(val, Num(10))
    ELSE mathSign(val) * mathLog(b, mathAbs(val))

signedLogInvTransform(b, val) ==
    IF val > -Num(1) /\ val < Num(1)
    THEN val * 10
    ELSE mathSign(val) * mathPow(b, mathAbs(val))

\* the re-projection of a transformed pair that lies inside (-1, 1),
\* as written in setExtent and unionExtent: the sign test reads the
\* start after it has been overwritten
Reproject(b, start, end) ==
    IF start < Num(1) /\ start > -Num(1) /\ end < Num(1) /\ end > -Num(1)
    THEN LET lmin == mathLog(b, start)
             lmax == mathLog(b, end)
             s    == mathMin(lmin, lmax)
         IN  <<s, IF ProdSign(s, end) >= 0 THEN mathMax(lmin, lmax) ELSE 0>>
    ELSE <<start, end>>

\* the array `extent` as unionExtent leaves it before the final union
TransformedPair(b, a, c) ==
    Reproject(b, signedLogTransform(b, a), signedLogTransform(b, c))

\* getExtent (fix flags unset): the original scale's extent
getExtent == <<originalExtent[1], originalExtent[2]>>

-----------------------------------------------------------------------------
(* Point queries, SignLog.ts *)

\* the raw extent lies inside (-10, 10)
Small(orig) ==
    orig[1] < Num(10) /\ orig[1] > -Num(10) /\ orig[2] < Num(10) /\ orig[2] > -Num(10)

\* the value that contain and normalize hand to the helper
QueryValue(b, orig, val) ==
    IF Small(orig) THEN mathLog(b, signedLogTransform(b, val))
    ELSE signedLogTransform(b, val)

\* the extent that contain, normalize and scale hand to the helper
QueryExtent(orig, ext) ==
    IF Small(orig) /\ orig[2] < 0 THEN <<ext[2], ext[1]>> ELSE ext

contain(b, orig, ext, val) ==
    helperContain(QueryValue(b, orig, val), QueryExtent(orig, ext))

normalize(b, orig, ext, val) ==
    helperNormalize(QueryValue(b, orig, val), QueryExtent(orig, ext))

\* scale(t) for the ratio t
scale(b, orig, ext, t) ==
    LET val == helperScale(t, QueryExtent(orig, ext))
    IN  signedLogInvTransform(b,
            IF Small(orig) THEN mathSign(orig[1]) * mathPow(b, val) ELSE val)

-----------------------------------------------------------------------------
(* Ticks, SignLog.ts *)

fuzzyCompare(value1, value2, iv) ==
    LET eps == mathAbs(iv) \div 1000000
    IN  IF value2 - value1 > eps THEN -1
        ELSE IF value1 - value2 > eps THEN 1
        ELSE 0

\* align with the upper bound rounded down to a power of the base
alignDown(b, min, max, iv) ==
    LET minLog == qwtLog(b, min)
        maxLog == qwtLog(b, max)
        x1 == IF fuzzyCompare(min, mathFloor(minLog), iv) = 0
              THEN min ELSE mathFloor(minLog)
        x2 == IF fuzzyCompare(max, mathFloor(maxLog), iv) = 0
              THEN max ELSE mathFloor(maxLog)
        vMin == IF min = 0 THEN 0
                ELSE IF min < 0 THEN -mathPow(b, -x1)
                ELSE mathPow(b, x1)
        vMax == IF max = 0 THEN 0
                ELSE IF max < 0 THEN -mathPow(b, -x2)
                ELSE mathPow(b, x2)
    IN  <<vMin, vMax>>

align(b, min, max, iv) ==
    LET minLog == qwtLog(b, min)
        maxLog == qwtLog(b, max)
        x1 == IF fuzzyCompare(min, mathFloor(minLog), iv) = 0
              THEN min ELSE mathFloor(minLog)
        x2 == IF fuzzyCompare(max, mathCeil(maxLog), iv) = 0
              THEN max ELSE mathCeil(maxLog)
        vMin == IF min = 0 THEN 0
                ELSE IF min < 0 THEN -mathPow(b, -x1)
                ELSE mathPow(b, x1)
        vMax == IF max = 0 THEN 0
                ELSE IF max < 0 THEN -mathPow(b, -x2)
                ELSE mathPow(b, x2)
    IN  <<vMin, vMax>>

\* <<pwdt, nwdt>>
getWdt(b, min, max, pmin, nmax) ==
    IF ProdSign(min, max) <= 0
    THEN IF min = 0
         THEN IF pmin < max
              THEN <<mathAbs(qwtLog(b, max) - qwtLog(b, pmin)), 0>>
              ELSE <<qwtLog(b, max), 0>>
         ELSE IF max = 0
         THEN IF nmax > min
              THEN <<0, mathAbs(qwtLog(b, nmax) - qwtLog(b, min))>>
              ELSE <<0, -qwtLog(b, min)>>
         ELSE IF pmin < max /\ nmax > min
         THEN << mathAbs(qwtLog(b, max) - qwtLog(b, pmin)),
                 mathAbs(qwtLog(b, nmax) - qwtLog(b, min)) >>
         ELSE IF pmin >= max /\ nmax <= min
         THEN <<mathAbs(qwtLog(b, max)), mathAbs(-qwtLog(b, min))>>
         ELSE IF pmin >= max
         THEN << mathAbs(qwtLog(b, max)),
                 mathAbs(qwtLog(b, nmax) - qwtLog(b, min)) >>
         ELSE << mathAbs(qwtLog(b, max) - qwtLog(b, pmin)),
                 mathAbs(-qwtLog(b, min)) >>
    ELSE IF min > 0
         THEN <<qwtLog(b, max) - qwtLog(b, min), 0>>
         ELSE <<0, qwtLog(b, max) - qwtLog(b, min)>>

\* the number a tick descriptor stands for: sign * base ^ value
Decode(b, t) == t.sign * mathPow(b, t.value)

\* Array.prototype.sort with the comparator of buildMajorTicks: ascending
\* decoded value, equal elements kept in their order (the sort is stable)
RECURSIVE InsertTick(_, _, _)
InsertTick(b, t, sorted) ==
    IF sorted = <<>> THEN <<t>>
    ELSE IF Decode(b, t) < Decode(b, Head(sorted))
         THEN <<t>> \o sorted
         ELSE <<Head(sorted)>> \o InsertTick(b, t, Tail(sorted))

RECURSIVE SortTicks(_, _)
SortTicks(b, ticks) ==
    IF ticks = <<>> THEN <<>>
    ELSE InsertTick(b, ticks[Len(ticks)], SortTicks(b, SubSeq(ticks, 1, Len(ticks) - 1)))

\* the count of the integers i >= 1 with i < num - 1
Interior(num) == IF num <= Num(2) THEN 0 ELSE ((num - Num(1) - 1) \div Unit)

\* the loop of one branch: ticks at floor(lo + i * step), i = 1 .. < num - 1
BranchTicks(sg, num, l1, l2) ==
    LET step == Div(mathAbs(l1 - l2), num - Num(1))
    IN  [i \in 1..Interior(num) |->
            [sign |-> sg, value |-> mathFloor(mathMin(l1, l2) + i * step)]]

\* buildMajorTicks for the raw extent orig and an interval iv > 0
buildMajorTicks(b, orig, iv) ==
    LET val  == align(b, orig[1], orig[2], iv)
        min  == val[1]
        max  == val[2]
        l1   == qwtLog(b, orig[1])
        l2   == qwtLog(b, orig[2])
        x1   == IF fuzzyCompare(l1, mathFloor(l1), iv) = 0 THEN l1 ELSE mathFloor(l1)
        x2   == IF fuzzyCompare(l2, mathCeil(l2), iv) = 0 THEN l2 ELSE mathCeil(l2)
        pmin == mathPow(b, x1)
        nmax == -mathPow(b, -x2)
        wdt  == getWdt(b, min, max, pmin, nmax)
        n1   == round(Div(wdt[1], iv), 10) + Num(1)
        n2   == round(Div(wdt[2], iv), 10) + Num(1)
        num1 == IF n1 > Num(10000) THEN Num(10000) ELSE n1
        num2 == IF n2 > Num(10000) THEN Num(10000) ELSE n2
        ends == << [sign |-> mathSign(min), value |-> mathLog(b, min)],
                   [sign |-> mathSign(max), value |-> mathLog(b, max)] >>
        zero == IF ProdSign(min, max) < 0
                THEN <<[sign |-> 0, value |-> 0]>> ELSE <<>>
        pos  == IF num1 > Num(1)
                THEN BranchTicks(1, num1,
                                 mathLog(b, IF min > 0 THEN min ELSE pmin),
                                 mathLog(b, max))
                ELSE <<>>
        neg  == IF num2 > Num(1)
                THEN BranchTicks(-1, num2,
                                 mathLog(b, -min),
                                 mathLog(b, -(IF max < 0 THEN max ELSE nmax)))
                ELSE <<>>
    IN  SortTicks(b, ends \o zero \o pos \o neg)

\* getTicks (fix flags unset) for the list that buildMajorTicks returned:
\* the rounded decoded value of every tick
getTicks(b, ticks) ==
    [i \in 1..Len(ticks) |-> round(Decode(b, ticks[i]), 10)]

-----------------------------------------------------------------------------
(* The calls made on a scale.                                              *)
(*                                                                         *)
(* A scale lives for one layout pass of its axis (specification, section   *)
(* 3): the extent accumulates by unionExtent calls over the series of the  *)
(* axis ("accumulate"), then the axis asks for nice ticks ("niced") or     *)
(* puts point queries ("queried"), and reads the answers ("done").         *)
(* calcNiceExtent is not called, so the fix flags stay unset.              *)

Bases == {10, 100}

Mantissas == {1, 5}

\* m * 10^k as a fixed-point number
Magnitude(m, k) == IF k >= 0 THEN Num(m) * IPow10(k) ELSE Num(m) \div IPow10(-k)

\* 0 and the values +-m * 10^k, -e <= k <= e
Values(e) ==
    {0} \cup { sg * Magnitude(m, k) : sg \in {-1, 1}, m \in Mantissas, k \in (-e)..e }

RawValues == Values(MaxExp)

\* the raw ranges handed to unionExtent
Ranges == { r \in RawValues \X RawValues : r[1] <= r[2] }

\* the raw ranges over one decade less
NarrowRanges == { r \in Values(MaxExp - 1) \X Values(MaxExp - 1) : r[1] <= r[2] }

ApproxTickNums == {0, 2, 10}

Call(op, arg, res) == [op |-> op, arg |-> arg, res |-> res]

\* an extent has been accumulated
Established == originalExtent[1] # Inf

Init ==
    /\ base \in Bases
    /\ originalExtent = <<Inf, -Inf>>
    /\ extent = <<Inf, -Inf>>
    /\ interval = 0
    /\ niceExtent = <<>>
    /\ power = 0
    /\ phase = "accumulate"
    /\ q = Call("new", <<>>, <<>>)

\* unionExtent with the original scale taking, besides the raw range, the
\* inverse transform of the stored transformed extent
unionExtentFromStored(a, c) ==
    /\ originalExtent' =
          ScaleUnionExtent(
              ScaleUnionExtent(originalExtent, <<a, c>>),
              IF Established
              THEN << signedLogInvTransform(base, extent[1]),
                      signedLogInvTransform(base, extent[2]) >>
              ELSE <<a, c>>)
    /\ extent' = ScaleUnionExtent(extent, TransformedPair(base, a, c))
    /\ UNCHANGED <<base, interval, niceExtent, power, phase>>

\* the body of unionExtent([a, c])
unionExtent(a, c) ==
    /\ originalExtent' = ScaleUnionExtent(originalExtent, <<a, c>>)
    /\ extent' = ScaleUnionExtent(extent, TransformedPair(base, a, c))
    /\ UNCHANGED <<base, interval, niceExtent, power, phase>>

\* the last call was a unionExtent whose argument q keeps
Observed == q.op \in {"unionExtent", "unionExtentAgain"} /\ q.arg # <<>>

\* unionExtent([a, c]).  An observed call keeps its argument in q, with the
\* caller's array as the call leaves it; it is followed by the same call
\* again and by nothing else.
UnionExtent(a, c, observed) ==
    /\ phase = "accumulate" /\ ~Observed
    /\ unionExtent(a, c)
    /\ q' = IF observed
            THEN Call("unionExtent", <<a, c>>, TransformedPair(base, a, c))
            ELSE Call("unionExtent", <<>>, <<>>)

\* unionExtent with the raw range of the call before
UnionExtentAgain ==
    /\ q.op = "unionExtent" /\ q.arg # <<>>
    /\ unionExtent(q.arg[1], q.arg[2])
    /\ q' = Call("unionExtentAgain", q.arg, TransformedPair(base, q.arg[1], q.arg[2]))

RECURSIVE AtLeastOne(_)
AtLeastOne(iv) == IF iv > 0 /\ iv < Num(1) THEN AtLeastOne(iv * 10) ELSE iv

\* the interval calcNiceTicks computes for a span > 0
NiceInterval(span, approxTickNum) ==
    LET iv0 == quantity(span)
        err == Mul(Div(Num(approxTickNum), span), iv0)
    IN  AtLeastOne(IF err <= Unit \div 2 THEN iv0 * 10 ELSE iv0)

\* calcNiceTicks(n)
CalcNiceTicks(n) ==
    LET approxTickNum == IF n = 0 THEN 10 ELSE n
        span == extent[2] - extent[1]
    IN  /\ phase = "accumulate" /\ Established /\ ~Observed
        /\ IF span <= 0
           THEN UNCHANGED <<interval, niceExtent>>
           ELSE LET iv == NiceInterval(span, approxTickNum)
                IN  /\ interval' = iv
                    /\ niceExtent' =
                         << round(Mul(mathCeil(Div(extent[1], iv)), iv), 10),
                            round(Mul(mathFloor(Div(extent[2], iv)), iv), 10) >>
        /\ phase' = "niced"
        /\ q' = Call("calcNiceTicks", <<n>>, <<>>)
        /\ UNCHANGED <<base, originalExtent, extent, power>>

\* getExtent()
GetExtent ==
    /\ phase = "niced"
    /\ phase' = "done"
    /\ q' = Call("getExtent", <<>>, getExtent)
    /\ UNCHANGED <<base, originalExtent, extent, interval, niceExtent, power>>

\* getTicks(), once calcNiceTicks has set an interval; res is the list of
\* tick descriptors of buildMajorTicks followed by the list of tick values
GetTicks ==
    /\ phase = "niced" /\ interval > 0
    /\ phase' = "done"
    /\ \E ticks \in {buildMajorTicks(base, originalExtent, interval)} :
          q' = Call("getTicks", <<interval>>, <<ticks, getTicks(base, ticks)>>)
    /\ UNCHANGED <<base, originalExtent, extent, interval, niceExtent, power>>

Next ==
    \/ \E r \in Ranges : UnionExtent(r[1], r[2], FALSE)
    \/ \E n \in ApproxTickNums : CalcNiceTicks(n)
    \/ GetExtent
    \/ GetTicks

Spec == Init /\ [][Next]_vars

NextUnion ==
    \/ \E r \in NarrowRanges, observed \in BOOLEAN : UnionExtent(r[1], r[2], observed)
    \/ UnionExtentAgain

SpecUnion == Init /\ [][NextUnion]_vars

-----------------------------------------------------------------------------
(* setExtent among the unionExtent calls.                                  *)

\* IntervalScale.setExtent: store the pair as the extent
IntervalSetExtent(ext, start, end) == <<start, end>>

\* setExtent(a, c): only the scale's own extent is written; res is the pair
\* handed to IntervalScale.setExtent
SetExtent(a, c) ==
    /\ phase = "accumulate"
    /\ \E pair \in {TransformedPair(base, a, c)} :
          /\ extent' = IntervalSetExtent(extent, pair[1], pair[2])
          /\ q' = Call("setExtent", <<a, c>>, pair)
    /\ UNCHANGED <<base, originalExtent, interval, niceExtent, power, phase>>

\* 0 and the values of the lowest and the highest decade but one
ExtentValues ==
    {0} \cup { sg * Magnitude(m, k) :
                  sg \in {-1, 1}, m \in Mantissas, k \in {0, MaxExp - 1} }

\* the raw ranges handed to setExtent and to the unionExtent calls around it
ExtentRanges == { r \in ExtentValues \X ExtentValues : r[1] <= r[2] }

NextExtent ==
    \/ \E r \in ExtentRanges : SetExtent(r[1], r[2])
    \/ \E r \in ExtentRanges, observed \in BOOLEAN : UnionExtent(r[1], r[2], observed)

SpecExtent == Init /\ [][NextExtent]_vars

-----------------------------------------------------------------------------
(* Point queries on the accumulated extent.                                *)

\* normalize(v); res is the ratio <<numerator, denominator>>
Normalize(v) ==
    /\ phase = "accumulate" /\ Established /\ ~Observed
    /\ phase' = "queried"
    /\ \E t \in {normalize(base, originalExtent, extent, v)} :
          q' = Call("normalize", <<v>>, t)
    /\ UNCHANGED <<base, originalExtent, extent, interval, niceExtent, power>>

\* scale(t) for the ratio t that normalize returned
Scale ==
    /\ phase = "queried" /\ q.op = "normalize"
    /\ phase' = "done"
    /\ \E val \in {scale(base, originalExtent, extent, q.res)} :
          q' = Call("scale", q.res, <<val>>)
    /\ UNCHANGED <<base, originalExtent, extent, interval, niceExtent, power>>

\* contain(v)
Contain(v) ==
    /\ phase = "accumulate" /\ Established /\ ~Observed
    /\ phase' = "done"
    /\ \E c \in {contain(base, originalExtent, extent, v)} :
          q' = Call("contain", <<v>>, <<c>>)
    /\ UNCHANGED <<base, originalExtent, extent, interval, niceExtent, power>>

NextPoint ==
    \/ \E r \in Ranges : UnionExtent(r[1], r[2], FALSE)
    \/ \E v \in RawValues : Normalize(v)
    \/ Scale
    \/ \E v \in RawValues : Contain(v)

SpecPoint == Init /\ [][NextPoint]_vars

-----------------------------------------------------------------------------
(* The transform called on its own.                                        *)

\* the mantissas of the values handed to the transform
TransformMantissas == {1, 2, 5, 9}

TransformValues ==
    {0} \cup { sg * Magnitude(m, k) :
                  sg \in {-1, 1}, m \in TransformMantissas, k \in (-MaxExp)..MaxExp }

\* signedLogTransform(x)
SignedLogTransform(x) ==
    /\ q' = Call("signedLogTransform", <<x>>, <<signedLogTransform(base, x)>>)
    /\ UNCHANGED <<base, originalExtent, extent, interval, niceExtent, power, phase>>

\* signedLogInvTransform(y)
SignedLogInvTransform(y) ==
    /\ q' = Call("signedLogInvTransform", <<y>>, <<signedLogInvTransform(base, y)>>)
    /\ UNCHANGED <<base, originalExtent, extent, interval, niceExtent, power, phase>>

\* the inverse is called on a result of the forward transform, or on a value
\* of the transformed domain
NextTransform ==
    \/ \E x \in TransformValues : SignedLogTransform(x)
    \/ /\ q.op = "signedLogTransform"
       /\ SignedLogInvTransform(q.res[1])
    \/ \E y \in Values(0) : SignedLogInvTransform(y)

SpecTransform == Init /\ [][NextTransform]_vars

-----------------------------------------------------------------------------
(* The revision that scales by _power, unnamed/part_000.                    *)

\* the _power that calcExtreme leaves for the raw extent orig
calcExtreme(orig, pw) ==
    LET nmax == IF orig[2] <= 0 THEN orig[2]
                ELSE IF orig[1] >= 0 THEN 0
                ELSE IF orig[1] < 0 THEN orig[1] ELSE 0
        pmin == IF orig[2] <= 0 THEN 0
                ELSE IF orig[1] >= 0 THEN orig[1]
                ELSE IF orig[2] > 0 THEN orig[1] ELSE 0
        min  == IF nmax # 0 /\ pmin # 0 THEN mathMin(-nmax, pmin)
                ELSE IF nmax = 0 THEN pmin
                ELSE -nmax
    IN  IF min > 0 /\ min < Num(10) THEN mathAbs(mathLog(10, min)) ELSE pw

\* signedLogTransform(val) once calcExtreme has run and left _power = pw
signedLogTransformPower(b, pw, val) ==
    LET v == Mul(Pow10(pw), val)
    IN  IF v > -Num(10) /\ v < Num(10) THEN Div(v, Num(10))
        ELSE mathSign(v) * mathLog(b, mathAbs(v))

signedLogInvTransformPower(b, pw, val) ==
    LET mPow == Pow10(pw)
    IN  IF val > -Num(1) /\ val < Num(1) THEN Div(val * 10, mPow)
        ELSE Div(mathSign(val) * mathPow(b, mathAbs(val)), mPow)

\* getExtent() with the fix flags unset
getExtentPower ==
    << signedLogInvTransformPower(base, power, extent[1]),
       signedLogInvTransformPower(base, power, extent[2]) >>

\* unionExtent([a, c]): the original scale takes the raw range, calcExtreme
\* runs inside each signedLogTransform, the transformed pair is unioned
UnionExtentPower(a, c) ==
    /\ phase = "accumulate"
    /\ \E orig \in {ScaleUnionExtent(originalExtent, <<a, c>>)} :
       \E pw \in {calcExtreme(orig, power)} :
          /\ originalExtent' = orig
          /\ power' = calcExtreme(orig, pw)
          /\ extent' = ScaleUnionExtent(extent,
                          << signedLogTransformPower(base, pw, a),
                             signedLogTransformPower(base, power', c) >>)
    /\ q' = Call("unionExtent", <<>>, <<>>)
    /\ UNCHANGED <<base, interval, niceExtent, phase>>

\* getExtent()
GetExtentPower ==
    /\ phase = "accumulate" /\ Established
    /\ phase' = "done"
    /\ q' = Call("getExtent", <<>>, getExtentPower)
    /\ UNCHANGED <<base, originalExtent, extent, interval, niceExtent, power>>

NextPower ==
    \/ \E r \in NarrowRanges : UnionExtentPower(r[1], r[2])
    \/ GetExtentPower

SpecPower == Init /\ [][NextPower]_vars

-----------------------------------------------------------------------------
(* Properties *)

rawMin == originalExtent[1]
rawMax == originalExtent[2]

\* x equals y up to rounding: within one percent and one unit of the last place
Close(x, y) == mathAbs(x - y) <= mathMax(mathAbs(x), mathAbs(y)) \div 100 + 1

\* the decoded values of a list of tick descriptors
Decoded(b, ticks) == [i \in 1..Len(ticks) |-> Decode(b, ticks[i])]

\* C1: for every base, signedLogInvTransform called on signedLogTransform(x)
\* returns x up to rounding, for every raw value x
RoundTrip ==
    q.op = "signedLogInvTransform" =>
        \A x \in TransformValues :
            q.arg[1] = signedLogTransform(base, x) => Close(q.res[1], x)

\* C2: for every base and all raw values x < y,
\* signedLogTransform(x) < signedLogTransform(y)
Monotonic ==
    q.op = "signedLogTransform" =>
        \A y \in TransformValues :
            q.arg[1] < y => q.res[1] < signedLogTransform(base, y)

\* C3: a unionExtent call with the raw range of the unionExtent call before
\* it leaves the raw extent, as getExtent returns it, as that call left it
UnionIdempotent ==
    [][q'.op = "unionExtentAgain" => getExtent' = getExtent]_vars

\* C3, its case: the same range has been unioned twice, into a scale whose
\* raw extent the first of the two calls widened on one side only
UnionIdempotentWitness ==
    /\ q.op = "unionExtentAgain"
    /\ rawMin = q.arg[1]
    /\ rawMax > q.arg[2]
    /\ q.arg[1] < q.arg[2]

\* C4: with a raw extent rawMin < rawMax, normalize(v) lies in [0, 1] for
\* every v with rawMin <= v <= rawMax; stated for base 10, the default
NormalizeRange ==
    (q.op = "normalize" /\ base = 10
        /\ rawMin < rawMax /\ rawMin <= q.arg[1] /\ q.arg[1] <= rawMax)
    => (0 <= q.res[1] /\ q.res[1] <= q.res[2])

\* C5: with a raw extent rawMin < rawMax, scale called on the result of
\* normalize(v) returns v, for every v with rawMin <= v <= rawMax; stated
\* for base 10, the default
ScaleInvertsNormalize ==
    [][(q.op = "normalize" /\ q'.op = "scale" /\ base = 10
            /\ rawMin < rawMax /\ rawMin <= q.arg[1] /\ q.arg[1] <= rawMax)
        => Close(q'.res[1], q.arg[1])]_vars

\* C6: contain(v) is true if and only if rawMin <= v <= rawMax; stated for
\* base 10, the default
ContainIsRangeTest ==
    (q.op = "contain" /\ base = 10)
    => (q.res[1] <=> (rawMin <= q.arg[1] /\ q.arg[1] <= rawMax))

\* C7: for a raw extent rawMin < 0 < rawMax and an interval >= 1 set by
\* calcNiceTicks, the decoded ticks of buildMajorTicks hold a tick <= rawMin,
\* a tick >= rawMax and a tick equal to 0, in non-decreasing order
TickBracketing ==
    (q.op = "getTicks" /\ rawMin < 0 /\ rawMax > 0 /\ interval >= Num(1)) =>
        LET d == Decoded(base, q.res[1])
        IN  /\ \E i \in DOMAIN d : d[i] <= rawMin
            /\ \E i \in DOMAIN d : d[i] >= rawMax
            /\ \E i \in DOMAIN d : d[i] = 0
            /\ \A i \in 1..(Len(d) - 1) : d[i] <= d[i + 1]

\* C7, its case: the ticks of the raw extent [-500, 50] in base 10, with
\* ticks between the ends on both sides of zero
TickBracketingWitness ==
    /\ q.op = "getTicks"
    /\ base = 10
    /\ originalExtent = <<-Num(500), Num(50)>>
    /\ interval >= Num(1)
    /\ Len(q.res[1]) >= 5

\* C8: no two tick descriptors of the list buildMajorTicks returns decode to
\* the same number
TicksDeduplicated ==
    q.op = "getTicks" =>
        LET d == Decoded(base, q.res[1])
        IN  \A i, j \in DOMAIN d : i < j => d[i] # d[j]

\* C9: for a raw extent [c, c] with c # 0, after calcNiceTicks, getTicks
\* returns exactly one tick, of value c; stated for base 10, the default
DegenerateTick ==
    (q.op = "getTicks" /\ base = 10 /\ rawMin = rawMax /\ rawMin # 0)
    => q.res[2] = <<rawMin>>

\* C10: in the revision that scales by _power, getExtent returns the least
\* lower bound and the greatest upper bound of the ranges unioned so far;
\* stated for base 10, the default
GetExtentPowerIsRaw ==
    (q.op = "getExtent" /\ base = 10)
    => (Close(q.res[1], rawMin) /\ Close(q.res[2], rawMax))

\* the transformed pair of the raw range [a, c] as section 4.2 of the
\* specification describes it: inside (-1, 1) the start is the lesser of the
\* two logarithms, and the end the greater when a and c do not have opposite
\* signs, 0 when they have
SpecifiedPair(b, a, c) ==
    LET s == signedLogTransform(b, a)
        e == signedLogTransform(b, c)
    IN  IF s < Num(1) /\ s > -Num(1) /\ e < Num(1) /\ e > -Num(1)
        THEN << mathMin(mathLog(b, s), mathLog(b, e)),
                IF ProdSign(a, c) >= 0
                THEN mathMax(mathLog(b, s), mathLog(b, e)) ELSE 0 >>
        ELSE <<s, e>>

\* C11: setExtent(a, c) leaves the raw extent equal to (a, c), and in every
\* state that holds a raw extent the stored transformed extent is the
\* transform, re-projected inside (-1, 1), of the raw extent's bounds;
\* stated for base 10, the default
TransformedExtentOfRaw ==
    base = 10 =>
        /\ q.op = "setExtent" => getExtent = q.arg
        /\ Established => extent = SpecifiedPair(base, rawMin, rawMax)

\* C12: when both transformed bounds s and e of setExtent(a, c) or
\* unionExtent([a, c]) lie strictly inside (-1, 1), the pair the call stores
\* has the start min(log|s|, log|e|); its end is max(log|s|, log|e|) when a
\* and c have the same sign, and is 0 in place of that maximum only when
\* they have opposite signs; stated for base 10, the default
ReprojectionRule ==
    (q.op \in {"setExtent", "unionExtent"} /\ q.arg # <<>> /\ base = 10) =>
        LET s  == signedLogTransform(base, q.arg[1])
            e  == signedLogTransform(base, q.arg[2])
            ls == mathLog(base, s)
            le == mathLog(base, e)
        IN  (s < Num(1) /\ s > -Num(1) /\ e < Num(1) /\ e > -Num(1)) =>
                /\ q.res[1] = mathMin(ls, le)
                /\ ProdSign(q.arg[1], q.arg[2]) > 0 => q.res[2] = mathMax(ls, le)
                /\ (q.res[2] = 0 /\ mathMax(ls, le) # 0)
                      => ProdSign(q.arg[1], q.arg[2]) < 0

\* C13: unionExtent leaves the pair it is given unchanged: after the call
\* the caller's array still holds the raw range that was passed in
CallerPairUnchanged ==
    (q.op \in {"unionExtent", "unionExtentAgain"} /\ q.arg # <<>>) => q.res = q.arg

=============================================================================
